---------------------------- MODULE Spec2Model ----------------------------
(***************************************************************************)
(* A model of the UCI front end of the engine (src/src/uci.cpp): the       *)
(* read-dispatch loop UCI::loop, the handlers position, setoption, go and  *)
(* bench, and the move codec UCI::square / UCI::move / UCI::to_move.       *)
(*                                                                         *)
(* The collaborators of uci.cpp that live in other translation units (the  *)
(* Position class and its legal-move generator, the thread pool with its   *)
(* worker, the option registry, setup_bench) are modelled from the         *)
(* specification; the board is a small game on a 2 x 3 board whose set of   *)
(* legal moves changes with every move, promotions included.               *)
(***************************************************************************)
EXTENDS Integers, Sequences, FiniteSets, TLC

VARIABLES
    argc,        \* 1: interactive; 2: started with command-line arguments
    cmd,         \* UCI::loop's cmd as assembled from argv before the loop; a line
                 \* read by getline lives within its Dispatch step only
    token,       \* UCI::loop's token: leading token of the last dispatched line
    pc,          \* protocol thread: "read", "bench", "wait" or "done"
    pos,         \* UCI::loop's Position
    states,      \* UCI::loop's StateListPtr (the state-history sequence)
    Options,     \* the option registry
    out,         \* what the last dispatched line wrote to the output stream
    stop,        \* Threads.stop
    ponder,      \* Threads.main()->ponder
    searching,   \* the worker is running a search
    search,      \* what the running search was started with (NoSearch when Idle)
    queued,      \* a start request the coordinator holds until Idle, or NoRequest
    nodesSearched, \* Threads.nodes_searched()
    bench_,      \* bench()'s locals while the replay runs
    call,        \* the last direct call of a codec or parser function since the
                 \* last dispatched line: its arguments and what it returned
    hist         \* history of the last dispatch, for stating the properties

vars == <<argc, cmd, token, pc, pos, states, Options, out, stop, ponder,
          searching, search, queued, nodesSearched, bench_, call, hist>>

-----------------------------------------------------------------------------
(* Bounds of the model *)

\* longest move list of a generated "position" line
MaxMoves == 3

\* largest node count one search reports
MaxNodes == 2

\* most keyword items of a generated go line
MaxGoItems == 2

\* longest time, in clock ticks, one search or one cache clear takes
MaxTicks == 1

-----------------------------------------------------------------------------
(* Text: strings, characters, whitespace tokenisation *)

CharAt(s, i) == SubSeq(s, i + 1, i + 1)

UpperChars == "ABCDEFGHIJKLMNOPQRSTUVWXYZ"
LowerChars == "abcdefghijklmnopqrstuvwxyz"

\* tolower() on one character
tolower(c) ==
    IF \E i \in 0..25 : CharAt(UpperChars, i) = c
    THEN CharAt(LowerChars, CHOOSE i \in 0..25 : CharAt(UpperChars, i) = c)
    ELSE c

IsSpace(c) == c = " "

\* operator>> with skipws, repeated: the whitespace-separated tokens of a line
RECURSIVE Tokens(_, _, _)
Tokens(s, i, cur) ==
    IF i >= Len(s)
    THEN (IF cur = "" THEN <<>> ELSE <<cur>>)
    ELSE IF IsSpace(CharAt(s, i))
         THEN (IF cur = "" THEN <<>> ELSE <<cur>>) \o Tokens(s, i + 1, "")
         ELSE Tokens(s, i + 1, cur \o CharAt(s, i))

Tokenize(s) == Tokens(s, 0, "")

-----------------------------------------------------------------------------
(* The board: a small game standing for the external legality engine.      *)
(* Two files (a, b) and three ranks; each side has one piece, a pawn that   *)
(* steps forward and promotes on the far rank, or (once promoted) a met     *)
(* that steps to an orthogonally adjacent empty square.                     *)

make_square(f, r) == r * 8 + f
file_of(s) == s % 8
rank_of(s) == s \div 8

BoardFiles == 0..1
BoardRanks == 0..2

OnBoard(f, r) == f \in BoardFiles /\ r \in BoardRanks

Them(c) == IF c = "w" THEN "b" ELSE "w"

\* piece type indexes, as they index the piece letters of UCI::move
PAWN == 1
MET  == 2

MOVE_NONE == [from |-> 0, to |-> 0, type |-> "NORMAL", promo |-> 0]
MOVE_NULL == [from |-> 1, to |-> 1, type |-> "NORMAL", promo |-> 0]

from_sq(m) == m.from
to_sq(m) == m.to
type_of(m) == m.type
promotion_type(m) == m.promo

StartBoard == [stm |-> "w", sq |-> [w |-> make_square(0, 0), b |-> make_square(1, 2)],
               kind |-> [w |-> PAWN, b |-> PAWN]]

\* a second position: white pawn one step from promotion, black already a met
NearPromotionBoard ==
    [stm |-> "w", sq |-> [w |-> make_square(0, 1), b |-> make_square(1, 0)],
     kind |-> [w |-> PAWN, b |-> MET]]

\* candidate destinations of the piece of side c, in generation order
Targets(b, c) ==
    LET s == b.sq[c]
        f == file_of(s)
        r == rank_of(s)
    IN  IF b.kind[c] = PAWN
        THEN (IF c = "w" THEN <<<<f, r + 1>>>> ELSE <<<<f, r - 1>>>>)
        ELSE << <<f, r - 1>>, <<f - 1, r>>, <<f + 1, r>>, <<f, r + 1>> >>

LastRank(c) == IF c = "w" THEN 2 ELSE 0

MakeMove(b, c, t) ==
    IF b.kind[c] = PAWN /\ t[2] = LastRank(c)
    THEN [from |-> b.sq[c], to |-> make_square(t[1], t[2]), type |-> "PROMOTION", promo |-> MET]
    ELSE [from |-> b.sq[c], to |-> make_square(t[1], t[2]), type |-> "NORMAL", promo |-> 0]

\* MoveList<LEGAL>(pos): the legal moves of the side to move, in order
MoveListLegal(b) ==
    LET c  == b.stm
        ts == Targets(b, c)
        ok(t) == OnBoard(t[1], t[2]) /\ make_square(t[1], t[2]) # b.sq[Them(c)]
        idx == {i \in 1..Len(ts) : ok(ts[i])}
        RECURSIVE build(_)
        build(i) == IF i > Len(ts) THEN <<>>
                    ELSE (IF i \in idx THEN <<MakeMove(b, c, ts[i])>> ELSE <<>>) \o build(i + 1)
    IN  build(1)

\* Position::do_move on the board
BoardDoMove(b, m) ==
    LET c == b.stm
    IN  [stm |-> Them(c),
         sq |-> [b.sq EXCEPT ![c] = to_sq(m)],
         kind |-> [b.kind EXCEPT ![c] = IF type_of(m) = "PROMOTION" THEN promotion_type(m) ELSE @]]

\* Position::flip on the board: colours swapped, ranks mirrored
MirrorSq(s) == make_square(file_of(s), 2 - rank_of(s))

BoardFlip(b) ==
    [stm |-> Them(b.stm),
     sq |-> [w |-> MirrorSq(b.sq.b), b |-> MirrorSq(b.sq.w)],
     kind |-> [w |-> b.kind.b, b |-> b.kind.w]]

-----------------------------------------------------------------------------
(* The move codec *)

FileChars == "abcdefgh"
RankChars == "12345678"
\* promotion letters in upper case
PieceCharsUpper == " PMSNRK"

PieceChars == " pmsnrk"

\* UCI::square
square(s) == CharAt(FileChars, file_of(s)) \o CharAt(RankChars, rank_of(s))

\* UCI::move
move(m) ==
    IF m = MOVE_NONE THEN "(none)"
    ELSE IF m = MOVE_NULL THEN "0000"
    ELSE LET mv == square(from_sq(m)) \o square(to_sq(m))
         IN  IF type_of(m) = "PROMOTION"
             THEN mv \o CharAt(PieceChars, promotion_type(m))
             ELSE mv

\* the str[4] = tolower(str[4]) of UCI::to_move
LowerPromotion(str) ==
    IF Len(str) = 5 THEN SubSeq(str, 1, 4) \o tolower(CharAt(str, 4)) ELSE str

\* a decode that compares the two squares only
to_moveSquaresOnly(b, str) ==
    LET ml == MoveListLegal(b)
        hit == {i \in 1..Len(ml) : Len(str) >= 4 /\ SubSeq(str, 1, 4) = SubSeq(move(ml[i]), 1, 4)}
    IN  IF hit = {} THEN MOVE_NONE
        ELSE ml[CHOOSE i \in hit : \A j \in hit : i <= j]

\* UCI::to_move: the first legal move whose text is the (normalised) token
to_move(b, str) ==
    LET s  == LowerPromotion(str)
        ml == MoveListLegal(b)
        hit == {i \in 1..Len(ml) : s = move(ml[i])}
    IN  IF hit = {} THEN MOVE_NONE
        ELSE ml[CHOOSE i \in hit : \A j \in hit : i <= j]

-----------------------------------------------------------------------------
(* UCI::value *)

VALUE_MATE == 32000
VALUE_INFINITE == 32001
MAX_PLY == 128
PawnValueEg == 206

Abs(n) == IF n < 0 THEN 0 - n ELSE n

\* integer division of C++: the quotient is truncated towards zero
CDiv(a, b) == IF a >= 0 THEN a \div b ELSE 0 - ((0 - a) \div b)

\* operator<< of a non-negative int
RECURSIVE NatText(_)
NatText(n) ==
    IF n < 10 THEN CharAt("0123456789", n)
    ELSE NatText(n \div 10) \o CharAt("0123456789", n % 10)

\* operator<< of an int
IntText(n) == IF n < 0 THEN "-" \o NatText(0 - n) ELSE NatText(n)

\* UCI::value (value is also a local of setoption)
UCIvalue(v) ==
    IF Abs(v) < VALUE_MATE - MAX_PLY
    THEN "cp " \o IntText(CDiv(v * 100, PawnValueEg))
    ELSE "mate " \o IntText(CDiv(IF v > 0 THEN VALUE_MATE - v + 1 ELSE (0 - VALUE_MATE) - v, 2))

-----------------------------------------------------------------------------
(* Position and state history *)

StartFEN == "rnsmksnr/8/pppppppp/8/8/PPPPPPPP/8/RNSKMSNR w 0 1"
NearPromotionFEN == "8/8/8/8/8/P7/8/1m6 w 0 1"

\* the FEN parser of Position::set; position() leaves a blank after the last
\* field, which the parser skips
BoardOfFen(fen) ==
    IF fen = NearPromotionFEN \/ fen = NearPromotionFEN \o " "
    THEN NearPromotionBoard
    ELSE StartBoard

\* A StateInfo pointer: the list it points into ("current": the list the
\* StateListPtr owns now; "dropped": a list that has been freed) and the index
NullRef == [list |-> "null", idx |-> 0]

\* a value-initialised StateInfo
ZeroState == [previous |-> NullRef]

\* &states->back()
Back(st) == [list |-> "current", idx |-> Len(st.entries)]

\* a position() that keeps the old list instead of allocating a new one
KeepStates(old) == old

\* states = StateListPtr(new std::deque<StateInfo>(1)): the old list is dropped
NewStates(old) == [entries |-> <<ZeroState>>]

\* what a pointer into the old list is once the list has been replaced
Dropped(ref) == IF ref.list = "current" THEN [ref EXCEPT !.list = "dropped"] ELSE ref

\* a move loop that forgets to append the entry it hands to do_move
EmplaceBackNone(st) == st

\* states->emplace_back()
EmplaceBack(st) == [st EXCEPT !.entries = Append(@, ZeroState)]

\* Options["UCI_Chess960"] read as a bool
Chess960(opts) == opts["UCI_Chess960"] = "true"

\* pos.set(fen, isChess960, si, thread)
PosSet(p, fen, c960, si) == [p EXCEPT !.board = BoardOfFen(fen), !.chess960 = c960, !.st = si]

\* pos.do_move(m, states->back()): the new entry links to the previous one and
\* becomes the position's state
DoMove(p, st, m) ==
    LET new == Back(st)
    IN  [pos |-> [p EXCEPT !.board = BoardDoMove(@, m), !.st = new],
         states |-> [st EXCEPT !.entries[new.idx] = [previous |-> p.st]]]

\* the condition of the move loop: the token decodes to a legal move
MoveLoopContinues(m) == m # MOVE_NONE

\* a move loop that skips an undecodable token and goes on with the next
RECURSIVE ApplyMovesSkip(_, _, _, _)
ApplyMovesSkip(p, st, is, n) ==
    IF is = <<>> THEN [pos |-> p, states |-> st, applied |-> n]
    ELSE LET m == to_move(p.board, Head(is))
         IN  IF ~MoveLoopContinues(m) THEN ApplyMovesSkip(p, st, Tail(is), n)
             ELSE LET d == DoMove(p, EmplaceBack(st), m)
                  IN  ApplyMovesSkip(d.pos, d.states, Tail(is), n + 1)

\* while (is >> token && (m = UCI::to_move(pos, token)) != MOVE_NONE) { ... }
RECURSIVE ApplyMoves(_, _, _, _)
ApplyMoves(p, st, is, n) ==
    IF is = <<>> THEN [pos |-> p, states |-> st, applied |-> n]
    ELSE LET m == to_move(p.board, Head(is))
         IN  IF ~MoveLoopContinues(m) THEN [pos |-> p, states |-> st, applied |-> n]
             ELSE LET d == DoMove(p, EmplaceBack(st), m)
                  IN  ApplyMoves(d.pos, d.states, Tail(is), n + 1)

\* index of the first "moves" token of a stream, or one past its end
RECURSIVE FindMoves(_, _)
FindMoves(is, i) ==
    IF i > Len(is) \/ is[i] = "moves" THEN i ELSE FindMoves(is, i + 1)

\* fen += token + " " over the tokens before "moves"
RECURSIVE JoinFen(_)
JoinFen(ts) == IF ts = <<>> THEN "" ELSE Head(ts) \o " " \o JoinFen(Tail(ts))

\* position(pos, is, states); applied = -1 when the command returns early
position(p, st, is, opts) ==
    LET first == IF is = <<>> THEN "" ELSE Head(is)
        k     == FindMoves(is, 2)
        fen   == IF first = "startpos" THEN StartFEN ELSE JoinFen(SubSeq(is, 2, k - 1))
        rest  == IF first = "startpos" THEN SubSeq(is, 3, Len(is))
                                       ELSE SubSeq(is, k + 1, Len(is))
        st1   == NewStates(st)
        p1    == IF st1 = st THEN p ELSE [p EXCEPT !.st = Dropped(@)]
    IN  IF first \notin {"startpos", "fen"}
        THEN [pos |-> p, states |-> st, applied |-> -1]
        ELSE ApplyMoves(PosSet(p1, fen, Chess960(opts), Back(st1)), st1, rest, 0)

-----------------------------------------------------------------------------
(* setoption *)

OptionNames == {"UCI_Chess960", "Skill Level"}

InitOptions == [n \in OptionNames |-> IF n = "UCI_Chess960" THEN "false" ELSE "20"]

\* name += (name.empty() ? "" : " ") + token
RECURSIVE JoinWords(_)
JoinWords(ts) ==
    IF ts = <<>> THEN ""
    ELSE IF Len(ts) = 1 THEN Head(ts)
    ELSE Head(ts) \o " " \o JoinWords(Tail(ts))

RECURSIVE FindValue(_, _)
FindValue(is, i) ==
    IF i > Len(is) \/ is[i] = "value" THEN i ELSE FindValue(is, i + 1)

\* a setoption that writes the entry without asking whether the name exists
setoptionUnchecked(is, opts) ==
    LET k     == FindValue(is, 2)
        name  == JoinWords(SubSeq(is, 2, k - 1))
        value == JoinWords(SubSeq(is, k + 1, Len(is)))
    IN  [opts |-> [n \in DOMAIN opts \cup {name} |-> IF n = name THEN value ELSE opts[n]],
         out |-> <<>>]

\* setoption(is): the registry afterwards and what is written to the output
setoption(is, opts) ==
    LET k     == FindValue(is, 2)
        name  == JoinWords(SubSeq(is, 2, k - 1))
        value == JoinWords(SubSeq(is, k + 1, Len(is)))
    IN  IF name \in DOMAIN opts
        THEN [opts |-> [opts EXCEPT ![name] = value], out |-> <<>>]
        ELSE [opts |-> opts, out |-> <<"No such option: " \o name>>]

-----------------------------------------------------------------------------
(* go: the limits parser *)

DigitChars == "0123456789"

IsDigit(c) == \E i \in 0..9 : CharAt(DigitChars, i) = c

DigitValue(c) == CHOOSE i \in 0..9 : CharAt(DigitChars, i) = c

\* number of leading digits of s from offset i
RECURSIVE DigitRun(_, _)
DigitRun(s, i) ==
    IF i < Len(s) /\ IsDigit(CharAt(s, i)) THEN 1 + DigitRun(s, i + 1) ELSE 0

RECURSIVE DigitsValue(_, _, _)
DigitsValue(s, i, n) ==
    IF n = 0 THEN 0 ELSE DigitsValue(s, i, n - 1) * 10 + DigitValue(CharAt(s, i + n - 1))

\* is >> number: the value read, whether the stream is still good, and the
\* stream afterwards.  At end of input the target keeps its value; a token
\* that does not start a number stores 0; both leave the stream failed.
ReadNumber(is, old) ==
    IF is = <<>> THEN [ok |-> FALSE, val |-> old, rest |-> <<>>]
    ELSE LET t    == Head(is)
             sgn  == IF Len(t) > 0 /\ CharAt(t, 0) \in {"-", "+"} THEN 1 ELSE 0
             n    == DigitRun(t, sgn)
             v    == DigitsValue(t, sgn, n)
             tail == SubSeq(t, sgn + n + 1, Len(t))
         IN  IF n = 0 THEN [ok |-> FALSE, val |-> 0, rest |-> <<>>]
             ELSE [ok |-> TRUE,
                   val |-> IF sgn = 1 /\ CharAt(t, 0) = "-" THEN 0 - v ELSE v,
                   rest |-> IF tail = "" THEN Tail(is) ELSE <<tail>> \o Tail(is)]

\* Search::LimitsType as constructed: time[WHITE], time[BLACK], inc[WHITE],
\* inc[BLACK] are named after their keywords
DefaultLimits ==
    [wtime |-> 0, btime |-> 0, winc |-> 0, binc |-> 0, movestogo |-> 0, depth |-> 0,
     nodes |-> 0, movetime |-> 0, mate |-> 0, perft |-> 0, infinite |-> 0,
     searchmoves |-> <<>>]

NumberKeywords ==
    {"wtime", "btime", "winc", "binc", "movestogo", "depth", "nodes", "movetime",
     "mate", "perft"}

\* a searchmoves loop that leaves out the tokens that decode to no move
RECURSIVE SearchMovesLegalOnly(_, _)
SearchMovesLegalOnly(b, is) ==
    IF is = <<>> THEN <<>>
    ELSE IF to_move(b, Head(is)) = MOVE_NONE THEN SearchMovesLegalOnly(b, Tail(is))
    ELSE <<to_move(b, Head(is))>> \o SearchMovesLegalOnly(b, Tail(is))

\* limits.searchmoves.push_back(UCI::to_move(pos, token)) for every token left
RECURSIVE SearchMoves(_, _)
SearchMoves(b, is) ==
    IF is = <<>> THEN <<>> ELSE <<to_move(b, Head(is))>> \o SearchMoves(b, Tail(is))

\* a token loop that ends at the first token outside the vocabulary
RECURSIVE GoScanStopsAtUnknown(_, _, _, _)
GoScanStopsAtUnknown(b, is, L, pm) ==
    IF is = <<>> THEN [limits |-> L, ponderMode |-> pm]
    ELSE LET t == Head(is)
             r == Tail(is)
         IN  IF t = "searchmoves"
             THEN [limits |-> [L EXCEPT !.searchmoves = @ \o SearchMoves(b, r)],
                   ponderMode |-> pm]
             ELSE IF t \in NumberKeywords
             THEN LET rd == ReadNumber(r, L[t])
                      L1 == [L EXCEPT ![t] = rd.val]
                  IN  IF rd.ok THEN GoScanStopsAtUnknown(b, rd.rest, L1, pm)
                      ELSE [limits |-> L1, ponderMode |-> pm]
             ELSE IF t = "infinite" THEN GoScanStopsAtUnknown(b, r, [L EXCEPT !.infinite = 1], pm)
             ELSE IF t = "ponder" THEN GoScanStopsAtUnknown(b, r, L, TRUE)
             ELSE [limits |-> L, ponderMode |-> pm]

\* the token loop of go()
RECURSIVE GoScan(_, _, _, _)
GoScan(b, is, L, pm) ==
    IF is = <<>> THEN [limits |-> L, ponderMode |-> pm]
    ELSE LET t == Head(is)
             r == Tail(is)
         IN  IF t = "searchmoves"
             THEN [limits |-> [L EXCEPT !.searchmoves = @ \o SearchMoves(b, r)],
                   ponderMode |-> pm]
             ELSE IF t \in NumberKeywords
             THEN LET rd == ReadNumber(r, L[t])
                      L1 == [L EXCEPT ![t] = rd.val]
                  IN  IF rd.ok THEN GoScan(b, rd.rest, L1, pm)
                      ELSE [limits |-> L1, ponderMode |-> pm]
             ELSE IF t = "infinite" THEN GoScan(b, r, [L EXCEPT !.infinite = 1], pm)
             ELSE IF t = "ponder" THEN GoScan(b, r, L, TRUE)
             ELSE GoScan(b, r, L, pm)

\* go(): limits and ponderMode handed to Threads.start_thinking
ParseGo(b, is) == GoScan(b, is, DefaultLimits, FALSE)

-----------------------------------------------------------------------------
(* The search lifecycle coordinator (the thread pool and its worker) *)

NoSearch == [limits |-> DefaultLimits, ponder |-> FALSE]

NoRequest == [present |-> FALSE, limits |-> DefaultLimits, ponder |-> FALSE]

\* the coordinator's state as one value
Worker == [stop |-> stop, ponder |-> ponder, searching |-> searching,
           search |-> search, queued |-> queued]

\* the worker leaves Idle with a new search: the stop flag is cleared, the
\* ponder flag is the request's
Started(w, limits, pm) ==
    [w EXCEPT !.stop = FALSE, !.ponder = pm, !.searching = TRUE,
              !.search = [limits |-> limits, ponder |-> pm]]

\* Threads.start_thinking(pos, states, limits, ponderMode): every outcome the
\* coordinator may choose.  From Idle the search starts; while a search runs
\* the request is dropped or kept until the worker is Idle.
start_thinking(w, limits, pm) ==
    IF ~w.searching
    THEN {Started(w, limits, pm)}
    ELSE {w, [w EXCEPT !.queued = [present |-> TRUE, limits |-> limits, ponder |-> pm]]}

-----------------------------------------------------------------------------
(* Input of the model *)

MoveTokens == {"a1a2", "b3b2", "a2a3m"}

RECURSIVE MoveLists(_)
MoveLists(n) ==
    IF n = 0 THEN {<<>>}
    ELSE LET shorter == MoveLists(n - 1)
         IN  shorter \cup {Append(l, t) : l \in {x \in shorter : Len(x) = n - 1}, t \in MoveTokens}

RECURSIVE Spaced(_)
Spaced(ts) == IF ts = <<>> THEN "" ELSE " " \o Head(ts) \o Spaced(Tail(ts))

\* the position lines of the position/state-history specification
PositionLines ==
    {"position startpos", "position", "position startpos a2a3 a1a2",
     "position fen " \o NearPromotionFEN, "position fen " \o NearPromotionFEN \o " moves a2a3M b1b2"}
    \cup {"position startpos moves" \o Spaced(l) : l \in MoveLists(MaxMoves) \ {<<>>}}

PosSpecLines ==
    PositionLines \cup {"flip", "go", "stop", "setoption name UCI_Chess960 value true"}

GoLines == {"go", "go ponder", "go infinite"}

SetoptionLines ==
    {"setoption name UCI_Chess960 value true", "setoption name DoesNotExist value 5"}

OtherLines ==
    {"", "   ", "quit", "stop", "ponderhit", "uci", "isready", "ucinewgame", "flip",
     "bench", "d", "psqt", "clear", "xyz 1",
     "position startpos", "position startpos moves a1a2"}

\* setoption lines: name tokens, value tokens (or no value keyword at all),
\* separated by one blank or by two
OptNameTokens ==
    {<<"UCI_Chess960">>, <<"Skill", "Level">>, <<"DoesNotExist">>, <<"Skill">>, <<>>}

OptValueTokens == {<<"true">>, <<"5">>, <<"a", "b">>, <<>>}

Separators == {" ", "  "}

RECURSIVE SepJoin(_, _)
SepJoin(sep, ts) == IF ts = <<>> THEN "" ELSE sep \o Head(ts) \o SepJoin(sep, Tail(ts))

OptLine(nt, vt, sep) ==
    "setoption" \o sep \o "name" \o SepJoin(sep, nt) \o sep \o "value" \o SepJoin(sep, vt)

OptLineNoValue(nt, sep) == "setoption" \o sep \o "name" \o SepJoin(sep, nt)

OptLines ==
    {OptLine(nt, vt, sep) : nt \in OptNameTokens, vt \in OptValueTokens, sep \in Separators}
    \cup {OptLineNoValue(nt, sep) : nt \in OptNameTokens, sep \in Separators}
    \cup {"uci"}

\* the lines standard input can deliver
Lines == GoLines \cup SetoptionLines \cup OtherLines

\* argv[1..] of a one-shot start
ArgVectors == {<<"bench">>, <<"isready">>, <<"quit">>, <<"go", "depth", "1">>, <<"xyz">>}

\* for (int i = 1; i < argc; ++i) cmd += std::string(argv[i]) + " ";
RECURSIVE JoinArgs(_)
JoinArgs(av) == IF av = <<>> THEN "" ELSE Head(av) \o " " \o JoinArgs(Tail(av))

\* setup_bench(pos, args): the command scripts the generator may produce
BenchScripts ==
    { <<"setoption name UCI_Chess960 value false", "ucinewgame", "position startpos",
        "go depth 1", "position startpos moves a1a2", "go depth 1">>,
      <<"go depth 1", "ucinewgame", "go depth 1">>,
      <<"position fen " \o NearPromotionFEN \o " moves a2a3m", "go depth 1">> }

ScriptLines == UNION {{sc[i] : i \in 1..Len(sc)} : sc \in BenchScripts}

AllLines == Lines \cup PosSpecLines \cup OptLines \cup {JoinArgs(av) : av \in ArgVectors} \cup ScriptLines

\* istringstream is(cmd) read token by token, for every line of the model
TokensOf == [l \in AllLines |-> Tokenize(l)]

-----------------------------------------------------------------------------
(* UCI::loop *)

PrintTokens == {"dev", "devhelp", "psqt", "type", "evaluate"}

KnownTokens ==
    {"ponderhit", "uci", "setoption", "go", "position", "ucinewgame", "isready",
     "clear", "flip", "bench", "d", "eval"} \cup PrintTokens

\* a chain whose first test names quit only: stop falls through to the end
BranchNoStop(tok) ==
    IF tok = "quit" THEN "stop"
    ELSE IF tok \in KnownTokens THEN tok
    ELSE "unknown"

\* the if / else-if chain of the loop body: the branch a leading token takes
Branch(tok) ==
    IF tok = "quit" \/ tok = "stop" THEN "stop"
    ELSE IF tok \in KnownTokens THEN tok
    ELSE "unknown"

\* a loop condition that tests argc only
LoopContinuesInteractive(tok, n) == n = 1

\* while (token != "quit" && argc == 1)
LoopContinues(tok, n) == tok # "quit" /\ n = 1

\* a go() that waits for the search whoever calls it
GoWaitsAlways(inBench) == TRUE

\* a bench() that does not wait after go()
GoWaitsNever(inBench) == FALSE

\* whether the caller of go() then blocks in wait_for_search_finished():
\* bench() does, the loop does not
GoWaits(inBench) == inBench

\* a ponderhit that also raises the stop flag
PonderHitAndStop(w) == [w EXCEPT !.ponder = FALSE, !.stop = TRUE]

\* the ponderhit branch: Threads.main()->ponder = false
PonderHit(w) == [w EXCEPT !.ponder = FALSE]

\* a quit / stop branch that leaves the flag alone
SetStopNot(w) == w

\* the quit / stop branch: Threads.stop = true
SetStop(w) == [w EXCEPT !.stop = TRUE]

NoCall == [fn |-> "none"]

\* bench()'s locals; now is the clock read by now(), counted from the entry of
\* bench(); counts and sinceClear record the node counts read and the time
\* spent since the last cache clear, for stating the properties
NoBench == [active |-> FALSE, list |-> <<>>, i |-> 0, nodes |-> 0, cnt |-> 1, num |-> 0,
            token |-> "", now |-> 0, elapsed |-> 0, counts |-> <<>>, sinceClear |-> 0]

\* s.find("go ") == 0
StartsWithGo(l) == Len(l) >= 3 /\ SubSeq(l, 1, 3) = "go "

\* the locals of bench() before its loop
BenchLocals(list) ==
    [active |-> TRUE, list |-> list, i |-> 1, nodes |-> 0, cnt |-> 1,
     num |-> Cardinality({i \in 1..Len(list) : StartsWithGo(list[i])}), token |-> "",
     now |-> 0, elapsed |-> 0, counts |-> <<>>, sinceClear |-> 0]

\* a ucinewgame branch that restarts the measurement before the clear
RestartClockBeforeClear(b, c) ==
    [b EXCEPT !.now = @ + c, !.elapsed = b.now, !.sinceClear = 0]

\* the ucinewgame branch of bench(): Search::clear() takes c ticks, then
\* elapsed = now()
RestartClock(b, c) ==
    [b EXCEPT !.now = @ + c, !.elapsed = b.now + c, !.sinceClear = 0]

\* elapsed = now() - elapsed + 1
BenchElapsed(nowv, start) == nowv - start + 1

\* what bench() has reported, for stating the properties
NoReport == [done |-> FALSE]

OptionOrder == <<"UCI_Chess960", "Skill Level">>

\* operator<< of the registry
OptionsText(opts) ==
    "option name " \o OptionOrder[1] \o " value " \o opts[OptionOrder[1]]
    \o " option name " \o OptionOrder[2] \o " value " \o opts[OptionOrder[2]]

\* operator<< of the position
PosText(p) == p.board.stm \o " " \o square(p.board.sq.w) \o " " \o square(p.board.sq.b)

\* what a handler leaves behind when it changes nothing
Same == [pos |-> pos, states |-> states, opts |-> Options, out |-> <<>>, w |-> Worker,
         bench |-> NoBench, applied |-> -1]

\* a go() that raises the stop flag before it asks for the new search
HandleGoStopsFirst(is) ==
    LET g == ParseGo(pos.board, is)
    IN  {[Same EXCEPT !.w = w2] : w2 \in start_thinking(SetStop(Worker), g.limits, g.ponderMode)}

\* the handlers shared by the loop and by bench()
HandleGo(is) ==
    LET g == ParseGo(pos.board, is)
    IN  {[Same EXCEPT !.w = w2] : w2 \in start_thinking(Worker, g.limits, g.ponderMode)}

HandleSetoption(is) ==
    LET r == setoption(is, Options)
    IN  {[Same EXCEPT !.opts = r.opts, !.out = r.out]}

HandlePosition(is) ==
    LET r == position(pos, states, is, Options)
    IN  {[Same EXCEPT !.pos = r.pos, !.states = r.states, !.applied = r.applied]}

\* one pass of the loop body for the line c: every outcome it can have
Handle(br, is, c) ==
    CASE br = "stop"       -> {[Same EXCEPT !.w = SetStop(Worker)]}
      [] br = "ponderhit"  -> {[Same EXCEPT !.w = PonderHit(Worker)]}
      [] br = "uci"        -> {[Same EXCEPT !.out = <<"id name engine", OptionsText(Options), "uciok">>]}
      [] br = "setoption"  -> HandleSetoption(is)
      [] br = "go"         -> HandleGo(is)
      [] br = "position"   -> HandlePosition(is)
      [] br = "ucinewgame" -> {Same}
      [] br = "isready"    -> {[Same EXCEPT !.out = <<"readyok">>]}
      [] br \in PrintTokens -> {[Same EXCEPT !.out = <<"static text: " \o br>>]}
      [] br = "clear"      -> {Same}
      [] br = "flip"       -> {[Same EXCEPT !.pos.board = BoardFlip(@)]}
      [] br = "bench"      -> {[Same EXCEPT !.bench = BenchLocals(sc)] : sc \in BenchScripts}
      [] br = "d"          -> {[Same EXCEPT !.out = <<PosText(pos)>>]}
      [] br = "eval"       -> {[Same EXCEPT !.out = <<"eval trace " \o PosText(pos)>>]}
      [] OTHER             -> {[Same EXCEPT !.out = <<"Unknown command: " \o c>>]}

LeadingToken(c) == IF TokensOf[c] = <<>> THEN "" ELSE Head(TokensOf[c])

Min(a, b) == IF a < b THEN a ELSE b

\* the loop body and the loop condition for the line c
Dispatch(c, eof) ==
    /\ pc = "read"
    /\ LET tok == LeadingToken(c)
           is  == IF TokensOf[c] = <<>> THEN <<>> ELSE Tail(TokensOf[c])
       IN  \E o \in Handle(Branch(tok), is, c) :
             /\ token' = tok
             /\ pos' = o.pos
             /\ states' = o.states
             /\ Options' = o.opts
             /\ out' = o.out
             /\ stop' = o.w.stop
             /\ ponder' = o.w.ponder
             /\ searching' = o.w.searching
             /\ search' = o.w.search
             /\ queued' = o.w.queued
             /\ bench_' = o.bench
             /\ pc' = IF o.bench.active THEN "bench"
                      ELSE IF Branch(tok) = "go" /\ GoWaits(FALSE) THEN "wait"
                      ELSE IF LoopContinues(tok, argc) THEN "read" ELSE "done"
             /\ hist' = [n |-> Min(hist.n + 1, 2), applied |-> o.applied, eof |-> eof,
                         line |-> IF Branch(tok) = "position" THEN c ELSE "",
                         prevLen |-> IF Branch(tok) = "position" THEN Len(states.entries) ELSE 0,
                         benchNodes |-> 0, report |-> NoReport]
             /\ call' = NoCall
    /\ UNCHANGED <<argc, cmd, nodesSearched>>

\* argc == 1 && getline(cin, cmd) delivered a line
ReadLine == argc = 1 /\ \E c \in Lines : Dispatch(c, FALSE)

\* argc == 1 && !getline(cin, cmd): cmd = "quit"
EndOfInput == argc = 1 /\ Dispatch("quit", TRUE)

\* argc > 1: the assembled command line is dispatched
RunArguments == argc > 1 /\ Dispatch(cmd, FALSE)

-----------------------------------------------------------------------------
(* bench(): the replay of the script, one line per step *)

\* the branch of bench()'s own chain; any other token is skipped
BenchBranch(tok) ==
    IF tok \in {"go", "setoption", "position", "ucinewgame"} THEN tok ELSE "skip"

BenchHandle(br, is) ==
    CASE br = "go"        -> HandleGo(is)
      [] br = "setoption" -> HandleSetoption(is)
      [] br = "position"  -> HandlePosition(is)
      [] OTHER            -> {Same}

\* one iteration of for (const auto& cmd : list); an empty line leaves the
\* previous token in place
BenchStep ==
    /\ pc = "bench"
    /\ bench_.active
    /\ bench_.i <= Len(bench_.list)
    /\ LET c   == bench_.list[bench_.i]
           tok == IF TokensOf[c] = <<>> THEN bench_.token ELSE Head(TokensOf[c])
           is  == IF TokensOf[c] = <<>> THEN <<>> ELSE Tail(TokensOf[c])
           br  == BenchBranch(tok)
           waits == br = "go" /\ GoWaits(TRUE)
       IN  \E o \in BenchHandle(br, is), clr \in (IF br = "ucinewgame" THEN 0..MaxTicks ELSE {0}) :
             /\ pos' = o.pos
             /\ states' = o.states
             /\ Options' = o.opts
             /\ out' = out \o o.out
             /\ stop' = o.w.stop
             /\ ponder' = o.w.ponder
             /\ searching' = o.w.searching
             /\ search' = o.w.search
             /\ queued' = o.w.queued
             /\ bench_' = [(IF br = "ucinewgame" THEN RestartClock(bench_, clr) ELSE bench_)
                              EXCEPT !.token = tok,
                                     !.cnt = IF br = "go" THEN @ + 1 ELSE @,
                                     !.i = IF waits THEN @ ELSE @ + 1]
             /\ pc' = IF waits THEN "wait" ELSE "bench"
             /\ hist' = [hist EXCEPT !.applied = o.applied,
                                     !.line = IF br = "position" THEN c ELSE "",
                                     !.prevLen = IF br = "position" THEN Len(states.entries) ELSE 0]
    /\ UNCHANGED <<call, argc, cmd, token, nodesSearched>>

\* Threads.main()->wait_for_search_finished() returns;
\* nodes += Threads.nodes_searched()
BenchWait ==
    /\ pc = "wait"
    /\ bench_.active
    /\ ~searching
    /\ \E d \in 0..MaxTicks :
         bench_' = [bench_ EXCEPT !.nodes = @ + nodesSearched, !.i = @ + 1,
                                  !.now = @ + d, !.sinceClear = @ + d,
                                  !.counts = Append(@, nodesSearched)]
    /\ pc' = "bench"
    /\ UNCHANGED <<call, argc, cmd, token, pos, states, Options, out, stop, ponder, searching,
                   search, queued, nodesSearched, hist>>

\* the script is done: the summary is written and the loop condition is read
BenchEnd ==
    /\ pc = "bench"
    /\ bench_.active
    /\ bench_.i > Len(bench_.list)
    /\ hist' = [hist EXCEPT !.benchNodes = bench_.nodes, !.applied = -1, !.line = "",
                            !.prevLen = 0,
                            !.report = [done |-> TRUE, nodes |-> bench_.nodes,
                                        elapsed |-> BenchElapsed(bench_.now, bench_.elapsed),
                                        now |-> bench_.now, start |-> bench_.elapsed,
                                        counts |-> bench_.counts,
                                        sinceClear |-> bench_.sinceClear,
                                        list |-> bench_.list]]
    /\ bench_' = NoBench
    /\ pc' = IF LoopContinues(token, argc) THEN "read" ELSE "done"
    /\ UNCHANGED <<call, argc, cmd, token, pos, states, Options, out, stop, ponder, searching,
                   search, queued, nodesSearched>>

-----------------------------------------------------------------------------
(* The worker *)

\* the node count a finished search reports; it is read by bench() only
FinishedNodes == IF bench_.active THEN 1..MaxNodes ELSE {0}

\* the worker polls the stop flag, finds it set and becomes Idle
WorkerAcknowledge ==
    /\ searching
    /\ stop
    /\ searching' = FALSE
    /\ search' = NoSearch
    /\ nodesSearched' \in FinishedNodes
    /\ UNCHANGED <<call, argc, cmd, token, pc, pos, states, Options, out, stop, ponder, queued,
                   bench_, hist>>

\* the search ends by itself: not while pondering, not an infinite search
WorkerComplete ==
    /\ searching
    /\ ~stop
    /\ ~ponder
    /\ search.limits.infinite = 0
    /\ searching' = FALSE
    /\ search' = NoSearch
    /\ nodesSearched' \in FinishedNodes
    /\ UNCHANGED <<call, argc, cmd, token, pc, pos, states, Options, out, stop, ponder, queued,
                   bench_, hist>>

\* the coordinator is Idle and holds a request: the search it asks for starts
\* (not after quit, which releases the worker)
StartQueued ==
    /\ pc # "done"
    /\ ~searching
    /\ queued.present
    /\ LET w == Started([Worker EXCEPT !.queued = NoRequest], queued.limits, queued.ponder)
       IN  /\ stop' = w.stop
           /\ ponder' = w.ponder
           /\ searching' = w.searching
           /\ search' = w.search
           /\ queued' = w.queued
    /\ UNCHANGED <<call, argc, cmd, token, pc, pos, states, Options, out, nodesSearched, bench_,
                   hist>>

-----------------------------------------------------------------------------
(* The system *)

InitStates == [entries |-> <<ZeroState>>]

InitPos == [board |-> BoardOfFen(StartFEN), chess960 |-> FALSE, st |-> Back(InitStates)]

InitHist == [n |-> 0, applied |-> -1, eof |-> FALSE, line |-> "", prevLen |-> 0,
             benchNodes |-> 0, report |-> NoReport]

Init ==
    /\ argc \in {1, 2}
    /\ cmd \in (IF argc = 1 THEN {""} ELSE {JoinArgs(av) : av \in ArgVectors})
    /\ token = ""
    /\ pc = "read"
    /\ states = InitStates
    /\ pos = InitPos
    /\ Options = InitOptions
    /\ out = <<>>
    /\ stop = FALSE
    /\ ponder = FALSE
    /\ searching = FALSE
    /\ search = NoSearch
    /\ queued = NoRequest
    /\ nodesSearched = 0
    /\ bench_ = NoBench
    /\ call = NoCall
    /\ hist = InitHist

Next ==
    \/ ReadLine
    \/ EndOfInput
    \/ RunArguments
    \/ BenchStep
    \/ BenchWait
    \/ BenchEnd
    \/ WorkerAcknowledge
    \/ WorkerComplete
    \/ StartQueued

Spec == Init /\ [][Next]_vars

\* The position / state-history manager under every position line
ReadPositionLine == argc = 1 /\ \E c \in PosSpecLines : Dispatch(c, FALSE)

PosInit == Init /\ argc = 1

PosNext == ReadPositionLine \/ WorkerAcknowledge \/ WorkerComplete

PosSpec == PosInit /\ [][PosNext]_vars

\* The option handler under every setoption line
ReadOptionLine == argc = 1 /\ \E c \in OptLines : Dispatch(c, FALSE)

OptSpec == PosInit /\ [][ReadOptionLine]_vars

\* The move codec called directly, on every board a few position lines reach
CodecLines ==
    {"position startpos", "position startpos moves a1a2", "position startpos moves a1a2 b3b2",
     "position startpos moves a1a2 b3b2 a2a3m", "position fen " \o NearPromotionFEN, "flip"}

BoardSquares == {make_square(f, r) : f \in BoardFiles, r \in BoardRanks}

PromotionSuffixes == {"", "m", "M", "p"}

\* the texts handed to the decoder: every pair of squares with and without a
\* fifth character, the two literals of the encoder, and other lengths
DecodeTexts ==
    {square(a) \o square(b) \o suf : a \in BoardSquares, b \in BoardSquares, suf \in PromotionSuffixes}
    \cup {"(none)", "0000", "", "a1", "a2a3mm"}

ReadCodecLine == argc = 1 /\ \E c \in CodecLines : Dispatch(c, FALSE)

\* UCI::to_move(pos, str) on the current position
CallToMove ==
    /\ \E t \in DecodeTexts :
         call' = [fn |-> "to_move", board |-> pos.board, text |-> t, ret |-> to_move(pos.board, t)]
    /\ UNCHANGED <<argc, cmd, token, pc, pos, states, Options, out, stop, ponder, searching,
                   search, queued, nodesSearched, bench_, hist>>

\* UCI::to_move(pos, UCI::move(m)) for a legal move m of the current position
CallMoveToMove ==
    /\ \E i \in 1..Len(MoveListLegal(pos.board)) :
         LET mv == MoveListLegal(pos.board)[i]
         IN  call' = [fn |-> "move", board |-> pos.board, m |-> mv, text |-> move(mv),
                      ret |-> to_move(pos.board, move(mv))]
    /\ UNCHANGED <<argc, cmd, token, pc, pos, states, Options, out, stop, ponder, searching,
                   search, queued, nodesSearched, bench_, hist>>

CodecNext == ReadCodecLine \/ CallToMove \/ CallMoveToMove

CodecSpec == PosInit /\ [][CodecNext]_vars

\* UCI::value called directly: the values of the mate band of either sign,
\* the values around the threshold, and centipawn values around zero
MateBand == (VALUE_MATE - MAX_PLY - 3)..(VALUE_INFINITE - 1)

ValueInputs == MateBand \cup {0 - v : v \in MateBand} \cup (0 - PawnValueEg - 4)..(PawnValueEg + 4)

CallValue ==
    /\ \E v \in ValueInputs : call' = [fn |-> "value", v |-> v, ret |-> UCIvalue(v)]
    /\ UNCHANGED <<argc, cmd, token, pc, pos, states, Options, out, stop, ponder, searching,
                   search, queued, nodesSearched, bench_, hist>>

ValueSpec == PosInit /\ [][CallValue]_vars

\* go() called directly on the lines of a one-shot start.  A line is a list of
\* items (a numeric keyword with its number, a flag, or a token outside the
\* vocabulary) with pairwise different keywords, and a searchmoves tail.
NumberTexts == {"15", "-3"}

GoItems ==
    {<<k, n>> : k \in NumberKeywords, n \in NumberTexts}
    \cup {<<"infinite">>, <<"ponder">>, <<"xyz">>}

RECURSIVE GoItemLists(_)
GoItemLists(n) ==
    IF n = 0 THEN {<<>>}
    ELSE LET shorter == GoItemLists(n - 1)
         IN  shorter \cup
             {Append(l, it) : l \in {x \in shorter : Len(x) = n - 1},
                              it \in GoItems} 

DistinctKeywords(l) == \A i, j \in 1..Len(l) : i # j => l[i][1] # l[j][1]

\* longer lines: the keywords four at a time, in the order of the source and
\* in the opposite order
LongItemLists ==
    { << <<"wtime", "15">>, <<"btime", "-3">>, <<"winc", "15">>, <<"binc", "-3">> >>,
      << <<"movestogo", "15">>, <<"depth", "-3">>, <<"nodes", "15">>, <<"movetime", "-3">> >>,
      << <<"mate", "15">>, <<"perft", "-3">>, <<"infinite">>, <<"ponder">> >> }

RECURSIVE Reverse(_)
Reverse(s) == IF s = <<>> THEN <<>> ELSE Append(Reverse(Tail(s)), Head(s))

GoInputs ==
    {l \in GoItemLists(MaxGoItems) : DistinctKeywords(l)}
    \cup LongItemLists \cup {Reverse(l) : l \in LongItemLists}

SearchmovesTails ==
    {<<>>, <<"searchmoves">>, <<"searchmoves", "a1a2", "depth", "9">>,
     <<"searchmoves", "b3b2", "a1a2", "ponder", "infinite">>}

RECURSIVE Flatten(_)
Flatten(l) == IF l = <<>> THEN <<>> ELSE Head(l) \o Flatten(Tail(l))

GoInit ==
    /\ argc = 2
    /\ \E l \in GoInputs, tl \in SearchmovesTails :
         /\ cmd = JoinArgs(<<"go">> \o Flatten(l) \o tl)
         /\ call = [fn |-> "argv", items |-> l, tail |-> tl]
    /\ token = ""
    /\ pc = "read"
    /\ states = InitStates
    /\ pos = InitPos
    /\ Options = InitOptions
    /\ out = <<>>
    /\ stop = FALSE
    /\ ponder = FALSE
    /\ searching = FALSE
    /\ search = NoSearch
    /\ queued = NoRequest
    /\ nodesSearched = 0
    /\ bench_ = NoBench
    /\ hist = InitHist

\* the loop reads the leading token go and go() parses the rest of cmd
CallGo ==
    /\ call.fn = "argv"
    /\ LET ts == Tokenize(cmd)
       IN  /\ Branch(Head(ts)) = "go"
           /\ call' = [fn |-> "go", items |-> call.items, tail |-> call.tail,
                       ret |-> ParseGo(pos.board, Tail(ts))]
    /\ UNCHANGED <<argc, cmd, token, pc, pos, states, Options, out, stop, ponder, searching,
                   search, queued, nodesSearched, bench_, hist>>

GoSpec == GoInit /\ [][CallGo]_vars

\* The loop and the worker, the worker acknowledging a stop it has been sent
FairSpec == Spec /\ WF_vars(WorkerAcknowledge)

-----------------------------------------------------------------------------
(* Properties *)

\* a step of the loop that dispatches the line c read from standard input
Reads(c) == argc = 1 /\ Dispatch(c, FALSE)

\* C1: while the worker is Searching or Pondering no step changes the Position
\* or the state history (position, flip, bench or a second go do not take
\* effect before the worker is Idle).
C1_NoMutationWhileSearching == [][searching => UNCHANGED <<pos, states>>]_vars

\* C2: after every position command that begins with startpos or fen the state
\* history has length 1 + the number of moves the command applied, and the
\* Position's back-reference is the last element of the current sequence,
\* never an element of a dropped one.
C2_HistoryBacksPosition ==
    /\ pos.st.list # "dropped"
    /\ hist.applied >= 0 =>
         /\ Len(states.entries) = 1 + hist.applied
         /\ pos.st = Back(states)

C2_Witness ==
    /\ hist.applied = 3
    /\ hist.prevLen >= 2
    /\ Len(states.entries) = 4
    /\ pos.st = [list |-> "current", idx |-> 4]

\* position startpos issued alone, with the registry as it is now
StartposAlone == position(InitPos, InitStates, <<"startpos">>, Options)

\* C3: after "position startpos", whatever position commands came before, the
\* Position and the state history are those "position startpos" issued alone
\* produces: the history is reset to one element.
C3_PositionForgetsEarlierCommands ==
    (token = "position" /\ hist.line = "position startpos") =>
        /\ pos = StartposAlone.pos
        /\ states = StartposAlone.states
        /\ Len(states.entries) = 1

C3_Witness ==
    /\ token = "position"
    /\ hist.line = "position startpos"
    /\ hist.prevLen > 1
    /\ pos.board = StartBoard

\* the move list of a position line: the tokens after its moves keyword
MovesOf(line) ==
    LET ts == TokensOf[line]
        k  == FindMoves(ts, 1)
    IN  SubSeq(ts, k + 1, Len(ts))

HasMoves(line) == FindMoves(TokensOf[line], 1) <= Len(TokensOf[line])

\* the board the line starts from
BaseBoard(line) ==
    IF TokensOf[line][2] = "startpos" THEN StartBoard ELSE NearPromotionBoard

\* the rule: moves are applied one by one, each decoded on the board reached
\* so far, up to the first token that is no legal move there
RECURSIVE LegalPrefix(_, _)
LegalPrefix(b, ts) ==
    IF ts = <<>> \/ to_move(b, Head(ts)) = MOVE_NONE
    THEN [board |-> b, n |-> 0]
    ELSE LET r == LegalPrefix(BoardDoMove(b, to_move(b, Head(ts))), Tail(ts))
         IN  [board |-> r.board, n |-> r.n + 1]

\* C4: a position command applies exactly the moves before the first token
\* that is no legal move in the position reached so far; the tokens after it
\* are ignored, and the command writes no diagnostic.
C4_LegalPrefixApplied ==
    (token = "position" /\ hist.line # "" /\ hist.applied >= 0 /\ HasMoves(hist.line)) =>
        LET r == LegalPrefix(BaseBoard(hist.line), MovesOf(hist.line))
        IN  /\ pos.board = r.board
            /\ hist.applied = r.n
            /\ out = <<>>

C4_Witness ==
    /\ token = "position"
    /\ hist.line = "position startpos moves a1a2 a2a3m b3b2"
    /\ hist.applied = 1
    /\ to_move(pos.board, "b3b2") # MOVE_NONE
    /\ pos.board = BoardDoMove(StartBoard, to_move(StartBoard, "a1a2"))

\* C5: the interactive loop never waits for the worker: the protocol thread is
\* in wait_for_search_finished only inside a bench replay, and outside one,
\* while a search runs, it is at its read and stop, quit and ponderhit can be
\* dispatched.
C5_LoopNeverWaits ==
    /\ pc = "wait" => bench_.active
    /\ (argc = 1 /\ searching /\ ~bench_.active /\ pc # "done") =>
         /\ pc = "read"
         /\ ENABLED Reads("stop")
         /\ ENABLED Reads("quit")
         /\ ENABLED Reads("ponderhit")

C5_Witness ==
    /\ argc = 1
    /\ searching
    /\ token = "go"
    /\ pc = "read"
    /\ ~bench_.active

\* C6: stop or quit dispatched during a search sets the stop flag and leaves
\* the worker running; the flag stays set until the worker acknowledges it;
\* and, the worker polling the flag, the coordinator reaches Idle.
C6_StopLeadsToIdle ==
    /\ [][(searching /\ (Dispatch("stop", FALSE) \/ Dispatch("quit", FALSE) \/ Dispatch("quit", TRUE)))
            => (stop' /\ searching' /\ search' = search)]_vars
    /\ [][(searching /\ stop) => (stop' \/ ~searching')]_vars
    /\ (searching /\ stop) ~> ~searching

C6_Witness ==
    /\ searching
    /\ stop
    /\ token \in {"stop", "quit"}

\* C7: ponderhit dispatched while the worker is Pondering clears the ponder
\* flag and changes nothing else: the same search goes on, now Searching.
C7_PonderhitOnlyClearsPonder ==
    [][(searching /\ ponder /\ Dispatch("ponderhit", FALSE))
         => /\ ~ponder'
            /\ searching'
            /\ UNCHANGED <<stop, search, queued, pos, states, Options>>]_vars

C7_Witness ==
    /\ token = "ponderhit"
    /\ searching
    /\ search.ponder
    /\ ~ponder
    /\ ~stop

\* C8: stop dispatched while Idle and ponderhit dispatched while not Pondering
\* write nothing, start no search and leave Position, state history and
\* registry alone; and a search that starts later starts with the stop flag
\* clear and its own ponder flag, whatever was sent before.
C8_StopAndPonderhitInert ==
    /\ [][((~searching /\ Dispatch("stop", FALSE)) \/ (~(searching /\ ponder) /\ Dispatch("ponderhit", FALSE)))
            => /\ out' = <<>>
               /\ searching' = searching
               /\ UNCHANGED <<pos, states, Options, search, queued>>]_vars
    /\ [][(~searching /\ searching') => (~stop' /\ ponder' = search'.ponder)]_vars

C8_Witness ==
    /\ hist.n = 1
    /\ token = "stop"
    /\ ~searching
    /\ stop
    /\ out = <<>>
    /\ pos = InitPos

\* C9: the loop ends exactly when the leading token is quit or the process was
\* started with arguments (one line dispatched), end of input being dispatched
\* as a quit line; nothing is dispatched after the loop has ended.
C9_LoopEnds ==
    /\ pc = "done" => (hist.n >= 1 /\ (token = "quit" \/ argc > 1))
    /\ pc = "read" => (hist.n = 0 \/ (token # "quit" /\ argc = 1))
    /\ (pc = "done" /\ argc > 1) => hist.n = 1
    /\ hist.eof => (token = "quit" /\ pc = "done" /\ stop)
    /\ pc = "done" => ~ENABLED (ReadLine \/ EndOfInput \/ RunArguments \/ BenchStep)

C9_Witness ==
    /\ argc = 1
    /\ hist.eof
    /\ pc = "done"
    /\ token = "quit"

\* C10: an empty or blank line is a no-op: it writes nothing, changes no state
\* and the loop goes on.
C10_BlankLineIsNoOp ==
    [][(Reads("") \/ Reads("   "))
         => /\ out' = <<>>
            /\ pc' = "read"
            /\ UNCHANGED <<pos, states, Options, stop, ponder>>]_vars

\* tokens joined by single spaces
SingleSpaced(ts) == IF ts = <<>> THEN "" ELSE Head(ts) \o Spaced(Tail(ts))

\* what setoption name N value V has to do to the registry and the output
OptionWritten(name, value) ==
    IF name \in DOMAIN Options
    THEN /\ Options' = [Options EXCEPT ![name] = value]
         /\ out' = <<>>
    ELSE /\ Options' = Options
         /\ out' = <<"No such option: " \o name>>

\* C11: setoption name N value V sets the entry of N to V (tokens joined by
\* single spaces) and no other entry when N is in the registry; otherwise it
\* writes the diagnostic naming N and leaves the registry unchanged.
C11_SetoptionWritesOrReports ==
    [][\A nt \in OptNameTokens, sep \in Separators :
         /\ \A vt \in OptValueTokens :
              Reads(OptLine(nt, vt, sep)) => OptionWritten(SingleSpaced(nt), SingleSpaced(vt))
         /\ Reads(OptLineNoValue(nt, sep)) => OptionWritten(SingleSpaced(nt), "")]_vars

C11_Witness ==
    /\ token = "setoption"
    /\ Options["UCI_Chess960"] = "true"
    /\ Options["Skill Level"] = "a b"
    /\ out = <<"No such option: DoesNotExist">>

\* the encodings of the legal moves of a board
Encodings(b) == {move(MoveListLegal(b)[i]) : i \in 1..Len(MoveListLegal(b))}

\* a token as the decoder compares it: the fifth character of a
\* five-character token in lower case
Normalised(t) == IF Len(t) = 5 THEN SubSeq(t, 1, 4) \o tolower(SubSeq(t, 5, 5)) ELSE t

\* C12 as stated: every text that is not the encoding of a legal move of the
\* position decodes to MOVE_NONE.
C12_NonEncodingDecodesToNone ==
    (call.fn = "to_move" /\ call.text \notin Encodings(call.board)) => call.ret = MOVE_NONE

\* C12 amended: every text whose normalised form (fifth character of a
\* five-character token in lower case) is not the encoding of a legal move of
\* the position decodes to MOVE_NONE - the literals (none) and 0000, legal
\* squares with a wrong or missing promotion letter and well-formed illegal
\* moves included.
C12_NormalisedNonEncodingDecodesToNone ==
    (call.fn = "to_move" /\ Normalised(call.text) \notin Encodings(call.board))
        => call.ret = MOVE_NONE

C12_Witness ==
    /\ call.fn = "to_move"
    /\ call.board = NearPromotionBoard
    /\ call.text = "a2a3p"
    /\ "a2a3m" \in Encodings(call.board)
    /\ call.ret = MOVE_NONE

\* C13: for every legal move m of a position, decoding the encoding of m on
\* that position returns m.
C13_RoundTrip == call.fn = "move" => call.ret = call.m

C13_Witness ==
    /\ call.fn = "move"
    /\ type_of(call.m) = "PROMOTION"
    /\ call.text = "a2a3m"
    /\ call.ret = call.m

\* C14: VALUE_MATE - 1 encodes as mate 1, -(VALUE_MATE - 1) as mate -1, and
\* every value of absolute value below VALUE_MATE - MAX_PLY as cp.
C14_MateSignKept ==
    call.fn = "value" =>
        /\ call.v = VALUE_MATE - 1 => call.ret = "mate 1"
        /\ call.v = 0 - (VALUE_MATE - 1) => call.ret = "mate -1"
        /\ Abs(call.v) < VALUE_MATE - MAX_PLY => SubSeq(call.ret, 1, 3) = "cp "

RECURSIVE SumSeq(_)
SumSeq(s) == IF s = <<>> THEN 0 ELSE Head(s) + SumSeq(Tail(s))

\* the go lines of a script
GoLineCount(list) == Cardinality({i \in 1..Len(list) : LeadingToken(list[i]) = "go"})

\* C15: the node total a bench replay reports is the sum of the node counts
\* read after each go line's search finished, one per go line, ucinewgame
\* resetting nothing of it; the elapsed time it reports is measured from the
\* end of the last cache clear, so it contains no cache clear.
C15_BenchTotals ==
    hist.report.done =>
        /\ hist.report.nodes = SumSeq(hist.report.counts)
        /\ Len(hist.report.counts) = GoLineCount(hist.report.list)
        /\ hist.report.elapsed = hist.report.sinceClear + 1

C15_Witness ==
    /\ hist.report.done
    /\ hist.report.list = <<"go depth 1", "ucinewgame", "go depth 1">>
    /\ hist.report.counts = <<1, 2>>
    /\ hist.report.nodes = 3
    /\ hist.report.now = 3
    /\ hist.report.elapsed = 2

\* C16: in a bench replay a go that starts the worker is followed by the wait;
\* while the protocol thread waits and the worker runs, no scripted line is
\* dispatched, the node counter is not read and Position, state history and
\* registry do not change; a replay begun from Idle never takes a step while
\* a search runs.
C16_BenchGoSynchronous ==
    /\ [][(BenchStep /\ ~searching /\ searching') => pc' = "wait"]_vars
    /\ [][(pc = "wait" /\ bench_.active /\ searching)
            => (pc' = "wait" /\ UNCHANGED <<bench_, pos, states, Options>>)]_vars
    /\ []((pc = "wait" /\ bench_.active /\ searching)
            => (~ENABLED BenchStep /\ ~ENABLED BenchWait /\ ~ENABLED BenchEnd))
    /\ []((argc > 1 /\ bench_.active /\ pc = "bench") => ~searching)

C16_Witness ==
    /\ argc > 1
    /\ pc = "wait"
    /\ bench_.active
    /\ searching
    /\ bench_.list[bench_.i] = "go depth 1"
    /\ bench_.i < Len(bench_.list)

\* C19: the elapsed time bench reports is now - start when that is 1 or
\* more, and 1 when it is 0; it is never 0.
C19_ElapsedFlooredAtOne ==
    hist.report.done =>
        /\ hist.report.elapsed =
               (IF hist.report.now - hist.report.start >= 1
                THEN hist.report.now - hist.report.start ELSE 1)
        /\ hist.report.elapsed # 0

\* C17: a position command without a moves keyword right after startpos, or
\* after the FEN text, applies no move: the Position is the initial (or the
\* given) position and the state history has length 1.
C17_NoMovesWithoutKeyword ==
    (token = "position" /\ hist.line # "" /\ hist.applied >= 0 /\ ~HasMoves(hist.line)) =>
        /\ hist.applied = 0
        /\ pos.board = BaseBoard(hist.line)
        /\ Len(states.entries) = 1

\* the number a number text stands for
NumOf(t) == CASE t = "15" -> 15 [] t = "-3" -> 0 - 3

\* what a go line made of the items l and the tail tl has to produce: every
\* field from the item that names it, whatever the order of the items
ExpectedLimits(b, l, tl) ==
    LET named(k) == {i \in 1..Len(l) : l[i][1] = k}
        num(k) == IF named(k) = {} THEN 0 ELSE NumOf(l[CHOOSE i \in named(k) : TRUE][2])
    IN  [wtime |-> num("wtime"), btime |-> num("btime"), winc |-> num("winc"),
         binc |-> num("binc"), movestogo |-> num("movestogo"), depth |-> num("depth"),
         nodes |-> num("nodes"), movetime |-> num("movetime"), mate |-> num("mate"),
         perft |-> num("perft"),
         infinite |-> IF named("infinite") = {} THEN 0 ELSE 1,
         searchmoves |-> IF tl = <<>> THEN <<>>
                         ELSE [i \in 1..(Len(tl) - 1) |-> to_move(b, tl[i + 1])]]

\* C18: go sets every limits field from the keyword that names it, infinite
\* and ponder set their flags only, fields not named keep their default,
\* tokens outside the vocabulary are skipped, the order of the keywords does
\* not matter, and searchmoves takes every token after it as a move.
C18_ParseGo ==
    call.fn = "go" =>
        /\ call.ret.limits = ExpectedLimits(pos.board, call.items, call.tail)
        /\ call.ret.ponderMode = (\E i \in 1..Len(call.items) : call.items[i][1] = "ponder")

C18_Witness ==
    /\ call.fn = "go"
    /\ call.items = << <<"xyz">>, <<"depth", "15">> >>
    /\ call.tail = <<"searchmoves", "a1a2", "depth", "9">>
    /\ call.ret.limits.depth = 15
    /\ Len(call.ret.limits.searchmoves) = 3
    /\ ~call.ret.ponderMode

\* C20: a go line dispatched while the worker is Searching or Pondering writes
\* nothing and leaves the running search as it is - its limits, the ponder
\* and stop flags, the Position and the state history; a search replaces
\* another only after the worker has been Idle.
C20_SecondGoLeavesSearch ==
    /\ [][(searching /\ \E c \in GoLines : Reads(c))
            => /\ searching'
               /\ out' = <<>>
               /\ UNCHANGED <<search, ponder, stop, pos, states, Options>>]_vars
    /\ [][(searching /\ searching') => search' = search]_vars

C20_Witness ==
    /\ token = "go"
    /\ searching
    /\ search.limits.infinite = 1
    /\ ~ponder
    /\ queued.present
    /\ queued.ponder

\* the tokens go() reads after searchmoves, and the set of legal moves
SearchmovesTokens == IF call.tail = <<>> THEN <<>> ELSE Tail(call.tail)

LegalSet(b) == {MoveListLegal(b)[i] : i \in 1..Len(MoveListLegal(b))}

\* C21 as stated: every entry of the searchmoves list go() hands to the worker
\* is a legal move of the Position; a token that decodes to no legal move adds
\* no entry, so the list never holds MOVE_NONE and is as long as the number of
\* decodable tokens.
C21_SearchmovesAllLegal ==
    call.fn = "go" =>
        LET sm == call.ret.limits.searchmoves
            toks == SearchmovesTokens
        IN  /\ \A i \in 1..Len(sm) : sm[i] # MOVE_NONE /\ sm[i] \in LegalSet(pos.board)
            /\ Len(sm) = Cardinality({i \in 1..Len(toks) :
                                        Normalised(toks[i]) \in Encodings(pos.board)})

\* C21 as amended: go() adds one entry for every token after searchmoves, in
\* the order of the tokens: the legal move of the Position the token encodes,
\* or MOVE_NONE when it encodes none; the list is as long as the number of
\* tokens, and its entries other than MOVE_NONE are legal moves, as many as
\* there are decodable tokens.
C21_SearchmovesOnePerToken ==
    call.fn = "go" =>
        LET sm == call.ret.limits.searchmoves
            toks == SearchmovesTokens
        IN  /\ Len(sm) = Len(toks)
            /\ \A i \in 1..Len(sm) :
                 IF Normalised(toks[i]) \in Encodings(pos.board)
                 THEN /\ sm[i] \in LegalSet(pos.board)
                      /\ move(sm[i]) = Normalised(toks[i])
                 ELSE sm[i] = MOVE_NONE
            /\ MOVE_NONE \notin LegalSet(pos.board)

C21_Witness ==
    /\ call.fn = "go"
    /\ call.tail = <<"searchmoves", "b3b2", "a1a2", "ponder", "infinite">>
    /\ Len(call.ret.limits.searchmoves) = 4
    /\ call.ret.limits.searchmoves[1] = MOVE_NONE
    /\ call.ret.limits.searchmoves[2] \in LegalSet(pos.board)
    /\ call.ret.limits.searchmoves[4] = MOVE_NONE
    /\ ~call.ret.ponderMode

=============================================================================
